---- MODULE Spec2Model ----
(* Blendshape Mirrorer: the tool window (view.py) and the core functions   *)
(* (core.py) it drives, over a small model of the host scene.             *)
(* Strings are sequences of one-character strings.                          *)
EXTENDS Integers, Sequences, FiniteSets, TLC

VARIABLES scene,           \* host scene: node name -> mesh
          selection,       \* host selection list (cmds.ls(selection=True))
          vert_text,       \* self.vert_textfield text
          mirror_axis,     \* the checked button of self.mirror_axis_cbox_list
          export_cbox,     \* self.export_cbox checked
          export_text,     \* self.export_dir_widget.file_path_line text
          directory_path,  \* self.directory_path
          last,            \* what the last handler did (calls, outcome, log)
          arg, ret         \* argument and result of a function applied alone

vars == <<scene, selection, vert_text, mirror_axis, export_cbox, export_text,
          directory_path, last, arg, ret>>

tool == <<selection, vert_text, mirror_axis, export_cbox, export_text,
          directory_path, last>>

EmptyScene == [n \in {} |-> 0]

(* ---------------------------------------------------------------------- *)
(* Python string operations used by the code                               *)
(* ---------------------------------------------------------------------- *)

\* python: t in s
Contains(s, t) ==
    \E i \in 1..(Len(s) - Len(t) + 1) : SubSeq(s, i, i + Len(t) - 1) = t

\* python: s.replace(old, new) for a non-empty old: every non-overlapping
\* occurrence, scanning left to right from index i
RECURSIVE ReplaceFrom(_, _, _, _)
ReplaceFrom(s, i, old, new) ==
    IF i > Len(s) THEN <<>>
    ELSE IF i + Len(old) - 1 <= Len(s) /\ SubSeq(s, i, i + Len(old) - 1) = old
         THEN new \o ReplaceFrom(s, i + Len(old), old, new)
         ELSE <<s[i]>> \o ReplaceFrom(s, i + 1, old, new)

Replace(s, old, new) == ReplaceFrom(s, 1, old, new)

TokL == <<"_", "l", "_">>
TokR == <<"_", "r", "_">>

\* the renaming with its else branch left out
NewNameLeftOnly(mesh) == Replace(mesh, TokL, TokR)

\* core.py create_mirrored_mesh: the name given to the duplicate
NewName(mesh) ==
    IF Contains(mesh, TokL) THEN Replace(mesh, TokL, TokR)
    ELSE Replace(mesh, TokR, TokL)

(* ---------------------------------------------------------------------- *)
(* The host scene: nodes by name. A mesh is a fan of quads around one      *)
(* centre vertex; the centre and the vertices joined to it by an edge are  *)
(* tracked. ring is the order in which the host lists the vertices         *)
(* connected to the centre (cyclic around it); pos is indexed by vertex id *)
(* and holds <<x, y, z>>, so python's pos[0], pos[1] are pos[1], pos[2].   *)
(* ---------------------------------------------------------------------- *)
Digits == <<"0", "1", "2", "3", "4", "5", "6", "7", "8", "9">>

\* python: str(n) for a one-digit vertex number
Str(n) == <<Digits[n + 1]>>

IsDigit(c) == \E i \in 1..10 : Digits[i] = c

DigitVal(c) == CHOOSE i \in 0..9 : Digits[i + 1] = c

VertIds(m) == DOMAIN m.pos

\* a vertex name "<mesh>.vtx[<n>]" as [mesh, vtx]; vtx = NoVtx is the bare
\* object name "<mesh>" and the empty text is the bare empty name
NoVtx == 0 - 1

Vtx(mesh, n) == [mesh |-> mesh, vtx |-> n]

EmptyText == Vtx(<<>>, NoVtx)

\* cmds.objExists
ObjExists(sc, v) ==
    /\ v.mesh \in DOMAIN sc
    /\ v.vtx # NoVtx => v.vtx \in VertIds(sc[v.mesh])

\* cmds.xform(name, query, translation, worldSpace): scale applied to the point
WorldPos(m, v) == <<m.scale[1] * m.pos[v][1],
                    m.scale[2] * m.pos[v][2],
                    m.scale[3] * m.pos[v][3]>>

\* MItMeshVertex.getConnectedVertices
GetConnectedVertices(m, v) == IF v = m.centre THEN m.ring ELSE <<m.centre>>

AxisIdx(axis) == CASE axis = "x" -> 1 [] axis = "y" -> 2 [] axis = "z" -> 3

\* cmds.setAttr("<node>.s<axis>", value)
SetAttrScale(m, axis, value) == [m EXCEPT !.scale[AxisIdx(axis)] = value]

\* cmds.makeIdentity(node, apply, scale): the scale is baked into the points
MakeIdentity(m) ==
    [m EXCEPT !.pos = [v \in VertIds(m) |-> WorldPos(m, v)],
              !.scale = <<1, 1, 1>>]

\* the host's next candidate for a clashing node name
NextName(n) ==
    IF Len(n) > 0 /\ IsDigit(n[Len(n)]) /\ DigitVal(n[Len(n)]) < 9
    THEN SubSeq(n, 1, Len(n) - 1) \o Str(DigitVal(n[Len(n)]) + 1)
    ELSE n \o Str(1)

\* the name the host gives a new node asked to be called n
RECURSIVE UniqueName(_, _)
UniqueName(sc, n) ==
    IF n \notin DOMAIN sc THEN n ELSE UniqueName(sc, NextName(n))

\* cmds.duplicate(mesh, name): the copy gets a unique name
Duplicate(sc, mesh, name) ==
    (UniqueName(sc, name) :> sc[mesh]) @@ sc

\* core.py create_mirrored_mesh
CreateMirroredMesh(sc, mesh, axis) ==
    LET new_name == NewName(mesh)
        sc1 == Duplicate(sc, mesh, new_name)
        sc2 == [sc1 EXCEPT ![new_name] = SetAttrScale(@, axis, 0 - 1)]
        sc3 == [sc2 EXCEPT ![new_name] = MakeIdentity(@)]
    IN  [scene |-> sc3, new_name |-> new_name, dup |-> UniqueName(sc, new_name)]

\* core.py src_verts, the loop over the connected vertices (num = 1..Len)
RECURSIVE ScanVerts(_, _, _, _)
ScanVerts(vert_ids, vert_positions, num, acc) ==
    IF num > Len(vert_ids) THEN acc
    ELSE LET a1 == IF vert_positions[num][2] > acc.up_check
                   THEN [acc EXCEPT !.up_check = vert_positions[num][2],
                                    !.up_vert = vert_ids[num]]
                   ELSE acc
             a2 == IF vert_positions[num][1] > a1.side_check_hi
                   THEN [a1 EXCEPT !.side_check_hi = vert_positions[num][1],
                                   !.side_vert_src = vert_ids[num]]
                   ELSE IF vert_positions[num][1] < a1.side_check_lo
                        THEN [a1 EXCEPT !.side_check_lo = vert_positions[num][1],
                                        !.side_vert_dest = vert_ids[num]]
                        ELSE a1
         IN  ScanVerts(vert_ids, vert_positions, num + 1, a2)

\* core.py src_verts: the name whose position is read for connected vertex
\* each: central_vert.replace(str(vert_num), str(each)) rewrites every
\* occurrence of the digit, in the mesh name as well as in the index
FullName(cv, each) ==
    Vtx(Replace(cv.mesh, Str(cv.vtx), Str(each)), each)

Raise(e) == [kind |-> "error", error |-> e]

\* core.py src_verts; its mirror_axis parameter (axis) is accepted and never read
SrcVerts(sc, cv, axis) ==
    IF cv.mesh \notin DOMAIN sc THEN Raise("ValueError")
    ELSE IF cv.vtx = NoVtx THEN Raise("ValueError")
    ELSE IF cv.vtx \notin VertIds(sc[cv.mesh]) THEN Raise("RuntimeError")
    ELSE
    LET vert_ids == GetConnectedVertices(sc[cv.mesh], cv.vtx)
        names == [k \in 1..Len(vert_ids) |-> FullName(cv, vert_ids[k])]
    IN  IF \E k \in 1..Len(vert_ids) : ~ObjExists(sc, names[k])
        THEN Raise("RuntimeError")
        ELSE IF Len(vert_ids) = 0 THEN Raise("IndexError")
        ELSE
        LET vert_positions ==
                [k \in 1..Len(vert_ids) |-> WorldPos(sc[names[k].mesh], names[k].vtx)]
            acc0 == [up_check |-> vert_positions[1][2],
                     up_vert |-> vert_ids[1],
                     side_check_hi |-> vert_positions[1][1],
                     side_check_lo |-> vert_positions[1][1],
                     side_vert_src |-> 0,
                     side_vert_dest |-> 0]
            acc == ScanVerts(vert_ids, vert_positions, 1, acc0)
        IN  [kind |-> "ok",
             src |-> <<cv.vtx, acc.up_vert, acc.side_vert_src>>,
             dst |-> <<cv.vtx, acc.up_vert, acc.side_vert_dest>>]

\* index of vertex v in a ring, 0 when v is not on it
RingIdx(ring, v) ==
    IF \E k \in 1..Len(ring) : ring[k] = v
    THEN CHOOSE k \in 1..Len(ring) : ring[k] = v
    ELSE 0

\* k places along a ring of length n from index i, in direction dir
RingStep(i, k, dir, n) == ((i - 1 + k * dir + n * n) % n) + 1

\* direction from ring index i to an adjacent index j: 1, -1, or 0 if apart
RingDir(i, j, n) ==
    IF i = 0 \/ j = 0 \/ n < 3 THEN 0
    ELSE IF RingStep(i, 1, 1, n) = j THEN 1
    ELSE IF RingStep(i, 1, 0 - 1, n) = j THEN 0 - 1
    ELSE 0

\* cmds.meshRemap: the three vertices of each mesh must be the centre and
\* two ring vertices that share a face with it (adjacent on the ring)
RemapValid(src, dst, s, d) ==
    /\ Cardinality(VertIds(src)) = Cardinality(VertIds(dst))
    /\ Len(src.ring) = Len(dst.ring)
    /\ s[1] = src.centre /\ d[1] = dst.centre
    /\ RingDir(RingIdx(src.ring, s[2]), RingIdx(src.ring, s[3]), Len(src.ring)) # 0
    /\ RingDir(RingIdx(dst.ring, d[2]), RingIdx(dst.ring, d[3]), Len(dst.ring)) # 0

\* cmds.meshRemap: the vertex of dst that source vertex v is matched with,
\* walking both rings from the second vertex towards the third
RemapTarget(src, dst, s, d, v) ==
    LET n == Len(src.ring)
        i == RingIdx(src.ring, s[2])
        j == RingIdx(dst.ring, d[2])
        dirS == RingDir(i, RingIdx(src.ring, s[3]), n)
        dirD == RingDir(j, RingIdx(dst.ring, d[3]), n)
    IN  IF v = src.centre THEN dst.centre
        ELSE LET k == CHOOSE k \in 0..(n - 1) :
                          src.ring[RingStep(i, k, dirS, n)] = v
             IN  dst.ring[RingStep(j, k, dirD, n)]

\* cmds.meshRemap: dst keeps its points and takes the vertex order of src
MeshRemap(src, dst, s, d) ==
    [dst EXCEPT !.centre = src.centre,
                !.ring = src.ring,
                !.pos = [v \in VertIds(src) |-> dst.pos[RemapTarget(src, dst, s, d, v)]]]

\* core.py transfer_vert_order
TransferVertOrder(sc, src_mesh, dest_mesh, vertex_ids) ==
    IF RemapValid(sc[src_mesh], sc[dest_mesh], vertex_ids[1], vertex_ids[2])
    THEN [kind |-> "ok",
          scene |-> [sc EXCEPT ![dest_mesh] =
                        MeshRemap(sc[src_mesh], sc[dest_mesh],
                                  vertex_ids[1], vertex_ids[2])]]
    ELSE Raise("RuntimeError")

(* ---------------------------------------------------------------------- *)
(* view.py: paths, dialogs and the export step of build                     *)
(* ---------------------------------------------------------------------- *)

\* python: s.split("/")[-1]
RECURSIVE LastComponent(_)
LastComponent(s) ==
    IF \E i \in 1..Len(s) : s[i] = "/"
    THEN LastComponent(SubSeq(s, (CHOOSE i \in 1..Len(s) : s[i] = "/") + 1, Len(s)))
    ELSE s

\* python: s.split(sep)[0] for a non-empty sep: the text before its first occurrence
SplitFirst(s, sep) ==
    IF Contains(s, sep)
    THEN LET i == CHOOSE i \in 1..(Len(s) - Len(sep) + 1) :
                      /\ SubSeq(s, i, i + Len(sep) - 1) = sep
                      /\ \A j \in 1..(i - 1) : SubSeq(s, j, j + Len(sep) - 1) # sep
         IN  SubSeq(s, 1, i - 1)
    ELSE s

DotObj == <<".", "o", "b", "j">>

\* view.py browse_command: str([path]) with the brackets taken out again
BrowseCommand(path) ==
    Replace(Replace(<<"[", "'">> \o path \o <<"'", "]">>, <<"[">>, <<>>),
            <<"]">>, <<>>)

\* view.py import_mesh, lines 270-272
ImportFilePath(path) == Replace(BrowseCommand(path), <<"'">>, <<>>)

ImportMeshName(path) == Replace(LastComponent(ImportFilePath(path)), DotObj, <<>>)

ImportSrcDir(path) == SplitFirst(ImportFilePath(path), ImportMeshName(path))

\* os.path.isdir on the directories of the modelled disk
DirSpellings == {<<"/">>, <<"/", "d">>, <<"/", "d", "/">>,
                 <<"/", "s">>, <<"/", "s", "/">>}

IsDir(p) == p \in DirSpellings

\* build's export step with the test of the checkbox left out
BuildExportUnchecked(cbox, text, choice, new_mesh, dp) ==
    IF IsDir(text)
    THEN [directory_path |-> text,
          exported |-> <<[mesh |-> new_mesh,
                          file_path |-> text \o <<"/">> \o new_mesh]>>,
          popups |-> 0]
    ELSE [directory_path |-> choice,
          exported |-> <<[mesh |-> new_mesh,
                          file_path |-> choice \o <<"/">> \o new_mesh]>>,
          popups |-> 1]

\* view.py build, lines 250-260; choice is what the directory popup returns
BuildExport(cbox, text, choice, new_mesh, dp) ==
    IF ~cbox
    THEN [directory_path |-> dp, exported |-> <<>>, popups |-> 0]
    ELSE IF IsDir(text)
         THEN [directory_path |-> text,
               exported |-> <<[mesh |-> new_mesh,
                               file_path |-> text \o <<"/">> \o new_mesh]>>,
               popups |-> 0]
         ELSE [directory_path |-> choice,
               exported |-> <<[mesh |-> new_mesh,
                               file_path |-> choice \o <<"/">> \o new_mesh]>>,
               popups |-> 1]

\* view.py build, lines 229-238: the vertex build works from
BuildValidate(sc, text, sel) ==
    IF text = EmptyText
    THEN IF sel = <<>>
         THEN [kind |-> "error", error |-> "IndexError", log |-> <<>>]
         ELSE [kind |-> "ok", central_vert |-> sel[1], log |-> <<>>]
    ELSE IF ~ObjExists(sc, text)
         THEN [kind |-> "error", error |-> "UnboundLocalError",
               log |-> <<"vertex does not exist">>]
         ELSE [kind |-> "ok", central_vert |-> text, log |-> <<>>]

(* ---------------------------------------------------------------------- *)
(* The tool window and its handlers                                         *)
(* ---------------------------------------------------------------------- *)
MaxNodes == 2

\* points of a sculpted fan by role: centre, up, right, down, left
RolePos == << <<0, 0, 0>>, <<0, 1, 0>>, <<2, 0, 1>>, <<0, 0 - 1, 0>>, <<0 - 1, 0, 0>> >>

\* ids = vertex ids of <<centre, up, right, down, left>>; ringRoles = the
\* roles in the order the host lists the vertices connected to the centre
StarMesh(ids, ringRoles) ==
    [centre |-> ids[1],
     ring |-> [k \in 1..Len(ringRoles) |-> ids[ringRoles[k]]],
     pos |-> [v \in 0..4 |-> RolePos[CHOOSE r \in 1..5 : ids[r] = v]],
     scale |-> <<1, 1, 1>>]

\* meshes the imported files may hold: the connected vertices listed from
\* the up vertex on; from the right vertex on with vertex 0 on the left;
\* from the right vertex on with vertex 0 at the centre
MeshUpFirst == StarMesh(<<0, 1, 2, 3, 4>>, <<2, 3, 4, 5>>)
MeshRightFirstLeftZero == StarMesh(<<1, 2, 3, 4, 0>>, <<3, 2, 5, 4>>)
MeshRightFirstCentreZero == StarMesh(<<0, 1, 2, 3, 4>>, <<3, 4, 5, 2>>)

MeshFamily == {MeshUpFirst, MeshRightFirstLeftZero, MeshRightFirstCentreZero}

PathSL == <<"/", "d", "/", "s", "_", "l", "_", ".", "o", "b", "j">>
PathS == <<"/", "s", "/", "s", ".", "o", "b", "j">>

\* files the user may pick in the import dialog; <<>> is a cancelled dialog
ImportPaths == {PathSL, PathS, <<>>}

\* what each file on the modelled disk may hold
FileContent(path) == IF path = PathSL THEN MeshFamily
                     ELSE {MeshRightFirstLeftZero}

\* view.py import_mesh, lines 270-272, for each file that may be picked
ImportParts == [path \in ImportPaths |->
                   [mesh_name |-> ImportMeshName(path),
                    src_dir |-> ImportSrcDir(path)]]

\* what a directory dialog may return; <<>> is a cancelled dialog
PopupChoices == {<<>>, <<"/", "d">>}

\* what the user may leave in the export directory field: nothing
TypedDirs == {<<>>}

Axes == {"x", "y", "z"}

NoLast(op, outcome) ==
    [op |-> op, outcome |-> outcome, mesh |-> <<>>, new_mesh |-> <<>>,
     dup |-> <<>>, axis |-> "", src |-> <<>>, dst |-> <<>>, steps |-> <<>>,
     exported |-> <<>>, popups |-> 0, log |-> <<>>, file |-> <<>>]

\* view.py MirrorBlendShapeTool.__init__ over an empty scene
ToolInit == /\ selection = <<>>
            /\ vert_text = EmptyText
            /\ mirror_axis = "x"
            /\ export_cbox = TRUE
            /\ export_text = <<>>
            /\ directory_path = <<>>
            /\ last = NoLast("init", "ok")

Init == /\ scene = EmptyScene
        /\ ToolInit
        /\ arg = <<>>
        /\ ret = <<>>

\* view.py MirrorBlendShapeTool.build, lines 240-260, from central_vert on;
\* choice is what the directory popup returns if it is opened
BuildFrom(central_vert) ==
    /\ Cardinality(DOMAIN scene) < MaxNodes
    /\ \E c \in {CreateMirroredMesh(scene, central_vert.mesh, "x")} :
       \E v \in {SrcVerts(c.scene, central_vert, "x")} :
       \E t \in {IF v.kind = "ok"
                 THEN TransferVertOrder(c.scene, central_vert.mesh, c.new_name,
                                        <<v.src, v.dst>>)
                 ELSE v} :
       \E choice \in PopupChoices :
       \E e \in {BuildExport(export_cbox, export_text, choice, c.new_name,
                             directory_path)} :
       \E made \in {[NoLast("build", "ok") EXCEPT !.mesh = central_vert.mesh,
                                                  !.new_mesh = c.new_name,
                                                  !.dup = c.dup,
                                                  !.axis = "x"]} :
           /\ IF v.kind = "error"
              THEN /\ scene' = c.scene
                   /\ selection' = <<Vtx(c.dup, NoVtx)>>
                   /\ last' = [made EXCEPT !.outcome = v.error,
                                           !.steps = <<"create_mirrored_mesh",
                                                       "src_verts">>]
                   /\ UNCHANGED directory_path
              ELSE IF t.kind = "error"
              THEN /\ scene' = c.scene
                   /\ selection' = <<Vtx(c.dup, NoVtx)>>
                   /\ last' = [made EXCEPT !.outcome = t.error,
                                           !.src = v.src, !.dst = v.dst,
                                           !.steps = <<"create_mirrored_mesh",
                                                       "src_verts",
                                                       "transfer_vert_order">>]
                   /\ UNCHANGED directory_path
              ELSE /\ scene' = t.scene
                   /\ selection' = <<>>
                   /\ directory_path' = e.directory_path
                   /\ last' = [made EXCEPT
                                 !.src = v.src, !.dst = v.dst,
                                 !.exported = e.exported,
                                 !.popups = e.popups,
                                 !.steps = <<"create_mirrored_mesh", "src_verts",
                                             "transfer_vert_order">>
                                           \o [k \in 1..Len(e.exported) |->
                                                  "export_dest_mesh"]]
           /\ UNCHANGED <<vert_text, mirror_axis, export_cbox, export_text,
                          arg, ret>>

\* view.py MirrorBlendShapeTool.build
Build ==
    \E val \in {BuildValidate(scene, vert_text, selection)} :
      IF val.kind = "error"
      THEN /\ last' = [NoLast("build", val.error) EXCEPT !.log = val.log]
           /\ UNCHANGED <<scene, selection, vert_text, mirror_axis, export_cbox,
                          export_text, directory_path, arg, ret>>
      ELSE BuildFrom(val.central_vert)

\* scene after cmds.delete of a node of that name (if any) and the import
Imported(sc, mesh_name, content) ==
    [n \in (DOMAIN sc) \cup {mesh_name} |->
        IF n = mesh_name THEN content ELSE sc[n]]

\* view.py MirrorBlendShapeTool.import_mesh, the picked file holding content
ImportInto(sc, path, content) ==
    \E mesh_name \in {ImportParts[path].mesh_name},
       src_dir \in {ImportParts[path].src_dir} :
      IF mesh_name = <<>>
      THEN /\ scene' = sc
           /\ selection' = (IF sc = scene THEN selection ELSE <<>>)
           /\ last' = [NoLast("import_mesh", "ValueError") EXCEPT !.file = path]
           /\ UNCHANGED <<directory_path, export_text>>
      ELSE /\ Cardinality(DOMAIN sc \cup {mesh_name}) <= MaxNodes
           /\ scene' = Imported(sc, mesh_name, content)
           /\ selection' = <<Vtx(mesh_name, NoVtx)>>
           /\ directory_path' = src_dir
           /\ export_text' = src_dir
           /\ last' = [NoLast("import_mesh", "ok") EXCEPT !.file = path,
                                                         !.mesh = mesh_name]

ImportMesh ==
    \E path \in ImportPaths : \E content \in FileContent(path) :
        /\ ImportInto(scene, path, content)
        /\ UNCHANGED <<vert_text, mirror_axis, export_cbox, arg, ret>>

\* view.py MirrorBlendShapeTool.new_blendshape: new scene, then import_mesh
NewBlendshape ==
    \E path \in ImportPaths : \E content \in FileContent(path) :
        /\ ImportInto(EmptyScene, path, content)
        /\ UNCHANGED <<vert_text, mirror_axis, export_cbox, arg, ret>>

\* view.py MirrorBlendShapeTool.get_vertex_number
GetVertexNumber ==
    /\ IF selection = <<>>
       THEN /\ last' = NoLast("get_vertex_number", "IndexError")
            /\ UNCHANGED vert_text
       ELSE /\ vert_text' = selection[1]
            /\ last' = NoLast("get_vertex_number", "ok")
    /\ UNCHANGED <<scene, selection, mirror_axis, export_cbox, export_text,
                   directory_path, arg, ret>>

\* the user picks the centre vertex of a mesh in the viewport, or nothing
SelectVertex ==
    /\ \/ \E n \in DOMAIN scene : selection' = <<Vtx(n, scene[n].centre)>>
       \/ selection' = <<>>
    /\ last' = NoLast("edit", "ok")
    /\ UNCHANGED <<scene, vert_text, mirror_axis, export_cbox, export_text,
                   directory_path, arg, ret>>

\* the user clears the vertex field or types a name no object has
TypeVertex ==
    /\ vert_text' \in {EmptyText, Vtx(<<"n">>, 0)}
    /\ last' = NoLast("edit", "ok")
    /\ UNCHANGED <<scene, selection, mirror_axis, export_cbox, export_text,
                   directory_path, arg, ret>>

\* the user checks one of the Mirror Axis radio buttons
SetMirrorAxis ==
    /\ mirror_axis' \in Axes
    /\ last' = NoLast("edit", "ok")
    /\ UNCHANGED <<scene, selection, vert_text, export_cbox, export_text,
                   directory_path, arg, ret>>

\* the user toggles Export Mesh on Build (export_settings_active enables or
\* disables the directory field and its browse button with it)
ToggleExport ==
    /\ export_cbox' = ~export_cbox
    /\ last' = NoLast("edit", "ok")
    /\ UNCHANGED <<scene, selection, vert_text, mirror_axis, export_text,
                   directory_path, arg, ret>>

\* the user types into the enabled export directory field
TypeExportDir ==
    /\ export_cbox
    /\ export_text' \in TypedDirs
    /\ last' = NoLast("edit", "ok")
    /\ UNCHANGED <<scene, selection, vert_text, mirror_axis, export_cbox,
                   directory_path, arg, ret>>

Next == \/ Build
        \/ ImportMesh
        \/ NewBlendshape
        \/ GetVertexNumber
        \/ SelectVertex
        \/ TypeVertex
        \/ SetMirrorAxis
        \/ ToggleExport
        \/ TypeExportDir

Spec == Init /\ [][Next]_vars

(* ---------------------------------------------------------------------- *)
(* Renaming applied to every bounded mesh name                              *)
(* ---------------------------------------------------------------------- *)
MaxNameLen == 6
NameChars == {"_", "l", "r", "a"}
NoRet == [kind |-> "none"]

AllNames == UNION {[1..n -> NameChars] : n \in 1..MaxNameLen}

InitRename == /\ scene = EmptyScene
              /\ ToolInit
              /\ arg \in AllNames
              /\ ret = NoRet

ApplyRename == /\ ret = NoRet
               /\ ret' = [kind |-> "name", name |-> NewName(arg)]
               /\ UNCHANGED <<scene, arg, tool>>

SpecRename == InitRename /\ [][ApplyRename]_vars

(* ---------------------------------------------------------------------- *)
(* create_mirrored_mesh applied to every bounded scene, mesh and axis       *)
(* ---------------------------------------------------------------------- *)
CreateNames == {<<"s", "_", "l", "_">>, <<"s", "_", "r", "_">>, <<"s">>}

CreateScenes ==
    UNION {[names -> MeshFamily] : names \in (SUBSET CreateNames) \ {{}}}

InitCreate == /\ scene \in CreateScenes
              /\ ToolInit
              /\ arg \in [mesh : DOMAIN scene, axis : Axes]
              /\ ret = NoRet

ApplyCreate ==
    /\ ret = NoRet
    /\ \E c \in {CreateMirroredMesh(scene, arg.mesh, arg.axis)} :
          /\ scene' = c.scene
          /\ ret' = [kind |-> "created", new_name |-> c.new_name, dup |-> c.dup]
    /\ UNCHANGED <<arg, tool>>

SpecCreate == InitCreate /\ [][ApplyCreate]_vars

(* ---------------------------------------------------------------------- *)
(* src_verts applied to the middle vertex of three-vertex strips            *)
(* ---------------------------------------------------------------------- *)
Heights == 0..1

\* vertices 0, 1, 2 left to right at the heights ys, vertex 1 joined to ring
StripMesh(ring, ys) ==
    [centre |-> 1,
     ring |-> ring,
     pos |-> [v \in 0..2 |-> <<v - 1, ys[v + 1], 0>>],
     scale |-> <<1, 1, 1>>]

StripRings == {<<0>>, <<2>>, <<0, 2>>, <<2, 0>>}

StripMeshes == {StripMesh(ring, ys) : ring \in StripRings,
                                      ys \in [1..3 -> Heights]}

NameA == <<"a">>
NameS0 == <<"s", "0">>
NameS1 == <<"s", "1">>
NameS2 == <<"s", "2">>

SrcScenes ==
    {(NameA :> m) : m \in StripMeshes}
    \cup {(NameS1 :> m) @@ (NameS0 :> StripMesh(<<0, 2>>, <<h0, 0, 0>>))
                        @@ (NameS2 :> StripMesh(<<0, 2>>, <<0, 0, h2>>)) :
             m \in StripMeshes, h0 \in Heights, h2 \in Heights}

InitSrcVerts == /\ scene \in SrcScenes
                /\ ToolInit
                /\ arg \in {Vtx(n, 1) : n \in (DOMAIN scene) \cap {NameA, NameS1}}
                /\ ret = NoRet

ApplySrcVerts ==
    /\ ret = NoRet
    /\ ret' = SrcVerts(scene, arg, "x")
    /\ UNCHANGED <<scene, arg, tool>>

SpecSrcVerts == InitSrcVerts /\ [][ApplySrcVerts]_vars

(* ---------------------------------------------------------------------- *)
(* Properties                                                               *)
(* ---------------------------------------------------------------------- *)
BuildOk == last.op = "build" /\ last.outcome = "ok"

\* the vertices joined to the centre of m
RingVerts(m) == {m.ring[k] : k \in 1..Len(m.ring)}

\* the connected vertex of m with the greatest / least world x
HighestX(m) ==
    CHOOSE v \in RingVerts(m) :
        \A w \in RingVerts(m) : WorldPos(m, v)[1] >= WorldPos(m, w)[1]

LowestX(m) ==
    CHOOSE v \in RingVerts(m) :
        \A w \in RingVerts(m) : WorldPos(m, v)[1] <= WorldPos(m, w)[1]

\* the first vertex, in connection order, of greatest world y among those
\* connected to vertex v of m
FirstHighest(m, v) ==
    LET ids == GetConnectedVertices(m, v)
        k == CHOOSE k \in 1..Len(ids) :
                 /\ \A j \in 1..Len(ids) :
                        WorldPos(m, ids[k])[2] >= WorldPos(m, ids[j])[2]
                 /\ \A j \in 1..(k - 1) :
                        WorldPos(m, ids[j])[2] < WorldPos(m, ids[k])[2]
    IN  ids[k]

\* which side of the mirror plane x = 0 a point is on
Side(p) == IF p[1] > 0 THEN 1 ELSE IF p[1] < 0 THEN 0 - 1 ELSE 0

\* C1: after a successful build the mirrored mesh has as many vertices as the
\* original, meshRemap was seeded with (centre, up neighbour, highest-x
\* neighbour) on the original and (centre, up neighbour, lowest-x neighbour)
\* on the mirrored mesh, and vertex i of the mirrored mesh lies on the same
\* side as vertex i of the original. Stated for the builds whose duplicate
\* is a node of its own, so that the original is the mesh as it was imported.
C1_VertexOrderMatches ==
    (BuildOk /\ last.dup = last.new_mesh /\ last.new_mesh # last.mesh) =>
        LET o == scene[last.mesh]
            m == scene[last.new_mesh]
        IN  /\ Cardinality(VertIds(m)) = Cardinality(VertIds(o))
            /\ last.src = <<o.centre, FirstHighest(o, o.centre), HighestX(o)>>
            /\ last.dst = <<o.centre, FirstHighest(o, o.centre), LowestX(o)>>
            /\ \A i \in VertIds(o) :
                   Side(WorldPos(m, i)) = Side(WorldPos(o, i))

\* mesh m mirrored across an axis: that coordinate of every point negated
Flipped(m, axis) ==
    [m EXCEPT !.pos = [v \in VertIds(m) |->
                          [k \in 1..3 |-> IF k = AxisIdx(axis)
                                          THEN 0 - m.pos[v][k]
                                          ELSE m.pos[v][k]]]]

\* C2: create_mirrored_mesh returns the name of a node that is new and is not
\* the input mesh, that node is the flipped copy, and every node that was in
\* the scene (the original among them) keeps its name, scale and points.
C2_FlipsOnlyDuplicate ==
    [][(ret = NoRet /\ ret' # NoRet) =>
          /\ ret'.new_name # arg.mesh
          /\ ret'.new_name \notin DOMAIN scene
          /\ ret'.new_name \in DOMAIN scene'
          /\ scene'[ret'.new_name] = Flipped(scene[arg.mesh], arg.axis)
          /\ \A n \in DOMAIN scene : n \in DOMAIN scene' /\ scene'[n] = scene[n]]_vars

\* C3: a successful build mirrors the duplicate across the axis checked in
\* the Mirror Axis option.
C3_MirrorsAcrossChosenAxis ==
    BuildOk => last.axis = mirror_axis

\* C4: a build whose vertex field is empty with nothing selected, or names an
\* object that does not exist, logs an error and duplicates, remaps and
\* exports nothing.
C4_InvalidVertexLoggedNoEffect ==
    [][(/\ last'.op = "build"
        /\ last' # last
        /\ \/ vert_text = EmptyText /\ selection = <<>>
           \/ vert_text # EmptyText /\ ~ObjExists(scene, vert_text)) =>
          /\ last'.log # <<>>
          /\ last'.steps = <<>>
          /\ last'.exported = <<>>
          /\ scene' = scene]_vars

\* C5: a successful build with Export Mesh on Build checked exports the new
\* mesh once to <dir>/<new mesh name>, dir being the export field's text when
\* that is a directory and the popup's answer otherwise, and dir is always an
\* existing, non-empty directory.
C5_ExportsOnceToExistingDir ==
    (BuildOk /\ export_cbox) =>
        /\ Len(last.exported) = 1
        /\ last.exported[1].mesh = last.new_mesh
        /\ last.exported[1].file_path = directory_path \o <<"/">> \o last.new_mesh
        /\ last.popups = (IF IsDir(export_text) THEN 0 ELSE 1)
        /\ IsDir(export_text) => directory_path = export_text
        /\ directory_path # <<>>
        /\ IsDir(directory_path)

\* C6: a build with Export Mesh on Build unchecked makes no export call,
\* opens no directory popup and leaves directory_path and the export field
\* as they were.
C6_UncheckedNeverExports ==
    [][(last'.op = "build" /\ ~export_cbox) =>
          /\ last'.exported = <<>>
          /\ last'.popups = 0
          /\ directory_path' = directory_path
          /\ export_text' = export_text]_vars

C6_Witness ==
    /\ BuildOk
    /\ ~export_cbox
    /\ Len(last.steps) = 3
    /\ IsDir(export_text)

\* python: the path up to and including its last "/"
DirOf(path) == SubSeq(path, 1, Len(path) - Len(LastComponent(path)))

\* C7: after import_mesh of <dir>/<name>.obj, directory_path and the export
\* field both hold <dir>/.
C7_ImportSetsContainingDir ==
    (last.op = "import_mesh" /\ last.outcome = "ok") =>
        /\ directory_path = DirOf(last.file)
        /\ export_text = DirOf(last.file)

\* C8: a successful build calls create_mirrored_mesh, src_verts,
\* transfer_vert_order and then (only when export is checked) export_dest_mesh,
\* in that order, and what it exports is the duplicate, not the original.
C8_OrderAndExportedDuplicate ==
    BuildOk =>
        /\ last.steps = (IF export_cbox
                         THEN <<"create_mirrored_mesh", "src_verts",
                                "transfer_vert_order", "export_dest_mesh">>
                         ELSE <<"create_mirrored_mesh", "src_verts",
                                "transfer_vert_order">>)
        /\ \A k \in 1..Len(last.exported) :
               /\ last.exported[k].mesh = last.dup
               /\ last.exported[k].mesh # last.mesh

\* C9: when src_verts returns, the second element of both triples is the first
\* vertex, in connection order, of greatest world y among the vertices
\* connected to the central vertex.
C9_UpVertIsFirstHighest ==
    (ret # NoRet /\ ret.kind = "ok") =>
        /\ ret.src[2] = FirstHighest(scene[arg.mesh], arg.vtx)
        /\ ret.dst[2] = FirstHighest(scene[arg.mesh], arg.vtx)

\* start indices of the occurrences of t in s
Occurrences(s, t) ==
    {i \in 1..(Len(s) - Len(t) + 1) : SubSeq(s, i, i + Len(t) - 1) = t}

\* no two side tokens of s share an underscore
TokensApart(s) ==
    \A i, j \in Occurrences(s, TokL) \cup Occurrences(s, TokR) :
        i # j => (i - j >= 3 \/ j - i >= 3)

\* C10 as claimed: for every name holding "_l_" or "_r_", renaming the renamed
\* name gives the name back.
C10_RenameInvolution ==
    (ret # NoRet /\ (Contains(arg, TokL) \/ Contains(arg, TokR))) =>
        NewName(ret.name) = arg

\* C10 as amended: for every name holding exactly one of "_l_" and "_r_",
\* with no two occurrences sharing an underscore, renaming the renamed name
\* gives the name back.
C10_RenameInvolutionOneSide ==
    (/\ ret # NoRet
     /\ Contains(arg, TokL) # Contains(arg, TokR)
     /\ TokensApart(arg)) =>
        NewName(ret.name) = arg

C10_Witness ==
    /\ ret # NoRet
    /\ Contains(arg, TokR) /\ ~Contains(arg, TokL)
    /\ Cardinality(Occurrences(arg, TokR)) = 2
    /\ TokensApart(arg)
    /\ ret.name # arg
====
